---- MODULE Spec2Model ----
(***************************************************************************)
(* The license server of src/license-server.js as a state machine.         *)
(*                                                                         *)
(* The persisted document (licenses.json) is the variable customers, the   *)
(* wall clock (Date.now) is the variable now.  Every Express handler is    *)
(* one action: Node runs a synchronous handler to completion, so the       *)
(* readData .. writeData sequence of a handler is one step.                *)
(*                                                                         *)
(* Timestamps are whole days since 1970-01-01 (UTC); the ISO text form of  *)
(* a timestamp and its parse are exact inverses at this resolution, the    *)
(* calendar arithmetic of Date.prototype.setMonth is modelled in full.     *)
(*                                                                         *)
(* Values that arrive in a JSON body are modelled as tagged JavaScript     *)
(* values [t, v]: v is a sequence of integers (the number itself, the      *)
(* character codes of a string, 1/0 for a boolean, empty otherwise).       *)
(*                                                                         *)
(* The specifications share the handlers:                                  *)
(*   Spec          every handler and the clock, one license, two devices;  *)
(*   SpecAdmit     Issue, Ban, Activate and the clock, every kind of       *)
(*                 maxDevices, three devices;                              *)
(*   SpecConc      a batch of Activate requests in flight at once, the     *)
(*                 handler in its two halves around the event loop;        *)
(*   SpecPair      every handler and the clock, two licenses, ids and      *)
(*                 keys that may repeat;                                   *)
(*   SpecE2E       one client running the end-to-end sequence;             *)
(*   SpecCalendar  addMonths applied to the dates of three years.          *)
(***************************************************************************)
EXTENDS Integers, Sequences, FiniteSets, TLC

VARIABLES
    customers,   \* db.customers of licenses.json: sequence of customer records
    now,         \* Date.now(), in days since the epoch
    request,     \* the request handled by the last step
    response,    \* the response sent by the last step
    inflight,    \* Activate requests received and not yet handled
    running,     \* the Activate handlers between readData() and writeData():
                 \* each a request with the db it read
    outcomes,    \* the responses to the requests of a batch, or of the
                 \* end-to-end sequence, in order
    ticks,       \* number of times the clock has advanced
    renewals     \* number of renewals written

vars == <<customers, now, request, response, inflight, running, outcomes,
          ticks, renewals>>

----------------------------------------------------------------------------
(* Bounds of the model *)

MaxCustomers == 1
MaxTicks == 1
MaxRenewals == 1
MaxBatch == 3
MaxPair == 2
MaxElapse == 2
CalendarFirstYear == 2023
CalendarLastYear == 2025
MaxMonths == 12

----------------------------------------------------------------------------
(* JavaScript values *)

Undefined == [t |-> "undefined", v |-> <<>>]
Null == [t |-> "null", v |-> <<>>]
NaN == [t |-> "nan", v |-> <<>>]
Num(n) == [t |-> "number", v |-> <<n>>]
Str(s) == [t |-> "string", v |-> s]
Bool(b) == [t |-> "boolean", v |-> <<IF b THEN 1 ELSE 0>>]

\* character codes
CharMinus == 45
Char0 == 48
Char9 == 57

IsDigit(c) == c >= Char0 /\ c <= Char9

RECURSIVE DigitsValue(_, _)
DigitsValue(s, acc) ==
    IF s = <<>> THEN acc
    ELSE DigitsValue(Tail(s), acc * 10 + (Head(s) - Char0))

AllDigits(s) == \A i \in 1..Len(s) : IsDigit(s[i])

\* StringToNumber: the empty string is 0, a decimal literal with an optional
\* sign is its value, every other text is NaN.
StringToNumber(s) ==
    IF s = <<>> THEN Num(0)
    ELSE IF AllDigits(s) THEN Num(DigitsValue(s, 0))
    ELSE IF Head(s) = CharMinus /\ Len(s) > 1 /\ AllDigits(Tail(s))
         THEN Num(0 - DigitsValue(Tail(s), 0))
    ELSE NaN

\* Number(x), also the ToNumber of a relational comparison
ToNumber(x) ==
    CASE x.t = "undefined" -> NaN
      [] x.t = "null" -> Num(0)
      [] x.t = "boolean" -> Num(x.v[1])
      [] x.t = "number" -> x
      [] x.t = "nan" -> NaN
      [] x.t = "string" -> StringToNumber(x.v)

\* ToBoolean(x): what !x and x || y test
Truthy(x) ==
    CASE x.t = "undefined" -> FALSE
      [] x.t = "null" -> FALSE
      [] x.t = "boolean" -> x.v[1] = 1
      [] x.t = "number" -> x.v[1] # 0
      [] x.t = "nan" -> FALSE
      [] x.t = "string" -> x.v # <<>>

\* x || y
Or(x, y) == IF Truthy(x) THEN x ELSE y

\* a destructuring default { p = d }: only undefined takes the default
Default(x, d) == IF x.t = "undefined" THEN d ELSE x

\* faulty variant: the count must exceed the limit
GreaterThan(n, x) ==
    LET y == ToNumber(x) IN y.t = "number" /\ n > y.v[1]

\* n >= x for a number n: false whenever ToNumber(x) is NaN
GreaterEq(n, x) ==
    LET y == ToNumber(x) IN y.t = "number" /\ n >= y.v[1]

----------------------------------------------------------------------------
(* Date: the calendar of ECMAScript, at day resolution *)

DayFromYear(y) ==
    365 * (y - 1970) + ((y - 1969) \div 4) - ((y - 1901) \div 100)
        + ((y - 1601) \div 400)

Years == 2022..2027

InLeapYear(y) == DayFromYear(y + 1) - DayFromYear(y) = 366

YearFromTime(t) ==
    CHOOSE y \in Years : DayFromYear(y) <= t /\ t < DayFromYear(y + 1)

\* days of a common year before month m (0..12)
CommonDaysBeforeMonth == <<0, 31, 59, 90, 120, 151, 181, 212, 243, 273, 304, 334, 365>>

DaysBeforeMonth(y, m) ==
    CommonDaysBeforeMonth[m + 1] + (IF m >= 2 /\ InLeapYear(y) THEN 1 ELSE 0)

DayWithinYear(t) == t - DayFromYear(YearFromTime(t))

\* getMonth(): 0..11
MonthFromTime(t) ==
    LET y == YearFromTime(t)
        d == t - DayFromYear(y)
    IN CHOOSE m \in 0..11 :
          DaysBeforeMonth(y, m) <= d /\ d < DaysBeforeMonth(y, m + 1)

\* getDate(): 1..31
DateFromTime(t) ==
    LET y == YearFromTime(t)
    IN t - DayFromYear(y) - DaysBeforeMonth(y, MonthFromTime(t)) + 1

\* MakeDay(year, month, date): month may lie outside 0..11 and date beyond
\* the month's length; the day number simply runs on.
MakeDay(year, month, date) ==
    LET ym == year + (month \div 12)
        mn == month % 12
    IN DayFromYear(ym) + DaysBeforeMonth(ym, mn) + date - 1

\* addMonths(date, months): d.setMonth(d.getMonth() + months)
addMonths(date, months) ==
    MakeDay(YearFromTime(date), MonthFromTime(date) + months, DateFromTime(date))

\* faulty variant: the day of the expiry itself still counts as valid
isExpiredStrict(iso) == iso < now

\* isExpired(iso)
isExpired(iso) == iso <= now

----------------------------------------------------------------------------
(* Inputs *)

\* 2024-01-31, the day the server starts
StartDay == DayFromYear(2024) + 30

\* values genId('cust') and genLicenseKey() may return; Math.random() may
\* return the same value twice
IdNames == <<"cust_1", "cust_2", "cust_3", "cust_4">>
KeyNames == <<"LIC-1", "LIC-2", "LIC-3", "LIC-4">>
Ids == {IdNames[i] : i \in 1..MaxCustomers}
Keys == {KeyNames[i] : i \in 1..MaxCustomers}
\* the ids and keys of the specification of two licenses
PairIds == {IdNames[i] : i \in 1..MaxPair}
PairKeys == {KeyNames[i] : i \in 1..MaxPair}
\* an id and a key that were never generated
UnknownId == "cust_0"
UnknownKey == "LIC-0"
DeviceNames == <<"dev1", "dev2", "dev3", "dev4">>
DeviceIds == {"dev1", "dev2"}
\* the devices of the admission and batch specifications
BatchDeviceIds == {DeviceNames[i] : i \in 1..MaxBatch}

\* name / email of a request body: "A" and "a", or missing
NameInputs == {Str(<<65>>), Undefined}
EmailInputs == {Str(<<97>>), Undefined}
\* months: missing, 1, -1, the text "2", the text "x"
MonthsInputs == {Undefined, Num(1), Num(-1), Str(<<50>>), Str(<<120>>)}
\* maxDevices: missing, 1, the text "x"
MaxDevicesInputs == {Undefined, Num(1), Str(<<120>>)}
\* maxDevices of the admission specification: also 2, the text "2", 0, null
MoreMaxDevicesInputs == MaxDevicesInputs \cup {Num(2), Str(<<50>>), Num(0), Null}
\* (licenseKey, deviceId) of an Activate or Verify request; either may be missing
LicenseInputs(devices) ==
    ((Keys \cup {UnknownKey}) \X devices) \cup {<<"", "dev1">>, <<"LIC-1", "">>}
BannedInputs == {Undefined, Bool(TRUE), Bool(FALSE)}

NoRequest == [op |-> "none"]
ActivateRequest(licenseKey, deviceId) ==
    [op |-> "activate", licenseKey |-> licenseKey, deviceId |-> deviceId]
NoResponse == [op |-> "none", code |-> 0, body |-> [status |-> "none"]]

----------------------------------------------------------------------------
(* The store *)

\* readData(): the parsed document
readData == customers

\* faulty variant: the first record of the store taken once some record has the id
FindByIdAny(db, id) == IF \E i \in 1..Len(db) : db[i].id = id THEN 1 ELSE 0

\* db.customers.find(x => x.id === id): index of the first match, 0 if none
FindById(db, id) ==
    IF \E i \in 1..Len(db) : db[i].id = id
    THEN CHOOSE i \in 1..Len(db) :
            db[i].id = id /\ \A j \in 1..(i - 1) : db[j].id # id
    ELSE 0

\* db.customers.find(x => x.licenseKey === licenseKey)
FindByKey(db, licenseKey) ==
    IF \E i \in 1..Len(db) : db[i].licenseKey = licenseKey
    THEN CHOOSE i \in 1..Len(db) :
            db[i].licenseKey = licenseKey
            /\ \A j \in 1..(i - 1) : db[j].licenseKey # licenseKey
    ELSE 0

\* faulty variant: only the last entry is compared
FindActivationLast(c, deviceId) ==
    IF c.activations # <<>>
       /\ c.activations[Len(c.activations)].deviceId = deviceId
    THEN Len(c.activations)
    ELSE 0

\* c.activations.find(a => a.deviceId === deviceId)
FindActivation(c, deviceId) ==
    IF \E i \in 1..Len(c.activations) : c.activations[i].deviceId = deviceId
    THEN CHOOSE i \in 1..Len(c.activations) :
            c.activations[i].deviceId = deviceId
            /\ \A j \in 1..(i - 1) : c.activations[j].deviceId # deviceId
    ELSE 0

----------------------------------------------------------------------------
(* Handlers, as functions of the document read and the request; each       *)
(* returns the response, the document it holds at the end and whether it   *)
(* called writeData.                                                       *)

Reply(op, code, body) == [op |-> op, code |-> code, body |-> body]
Result(db, wrote, res) == [db |-> db, wrote |-> wrote, res |-> res]

\* Number(months) || d
MonthsOr(months, d) == Or(ToNumber(months), Num(d)).v[1]

\* POST /api/customers
IssueHandler(db, name, email, months, maxDevices, id, licenseKey) ==
    IF ~Truthy(name) \/ ~Truthy(email)
    THEN Result(db, FALSE, Reply("issue", 400, [error |-> "name and email required"]))
    ELSE LET customer ==
                [id |-> id,
                 name |-> name,
                 email |-> email,
                 licenseKey |-> licenseKey,
                 status |-> "active",
                 maxDevices |-> Default(maxDevices, Num(2)),
                 createdAt |-> now,
                 expiresAt |-> addMonths(now, MonthsOr(Default(months, Num(6)), 6)),
                 activations |-> <<>>]
         IN Result(Append(db, customer), TRUE, Reply("issue", 200, customer))

\* faulty variant: the renewal always extends the stored expiry
RenewBaseStored(c) == c.expiresAt

\* baseDate of a renewal
RenewBase(c) == IF isExpired(c.expiresAt) THEN now ELSE c.expiresAt

\* PUT /api/customers/:id/renew
RenewHandler(db, id, months) ==
    LET i == FindById(db, id) IN
    IF i = 0
    THEN Result(db, FALSE, Reply("renew", 404, [error |-> "not found"]))
    ELSE LET c == [db[i] EXCEPT
                     !.expiresAt = addMonths(RenewBase(db[i]),
                                             MonthsOr(Default(months, Num(3)), 3))]
         IN Result([db EXCEPT ![i] = c], TRUE, Reply("renew", 200, c))

\* faulty variant: unbanning always yields 'active'
BanStatusActive(c, banned) == IF Truthy(banned) THEN "banned" ELSE "active"

\* faulty variant: unbanning leaves the status as it was
BanStatusKept(c, banned) == IF Truthy(banned) THEN "banned" ELSE c.status

\* c.status of PUT /api/customers/:id/ban
BanStatus(c, banned) ==
    IF Truthy(banned) THEN "banned"
    ELSE IF isExpired(c.expiresAt) THEN "expired" ELSE "active"

\* PUT /api/customers/:id/ban
BanHandler(db, id, banned) ==
    LET i == FindById(db, id) IN
    IF i = 0
    THEN Result(db, FALSE, Reply("ban", 404, [error |-> "not found"]))
    ELSE LET c == [db[i] EXCEPT !.status = BanStatus(db[i], Default(banned, Bool(TRUE)))]
         IN Result([db EXCEPT ![i] = c], TRUE, Reply("ban", 200, c))

\* faulty variant: the limit tested with > in place of >=
AtDeviceLimitOffByOne(c) ==
    LET y == ToNumber(c.maxDevices) IN y.t = "number" /\ Len(c.activations) > y.v[1]

\* (c.activations?.length || 0) >= c.maxDevices
AtDeviceLimit(c) == GreaterEq(Len(c.activations), c.maxDevices)

\* faulty variant: the lookup of the device's entry left out
NotExistingAlways(c, deviceId) == TRUE

\* !existing
NotExisting(c, deviceId) == FindActivation(c, deviceId) = 0

\* faulty variant: the expired license also loses its activations
ExpireRecordAndReset(c) == [c EXCEPT !.status = "expired", !.activations = <<>>]

\* c.status = 'expired' of a rejected activation
ExpireRecord(c) == [c EXCEPT !.status = "expired"]

\* faulty variant: the expiry tested before the ban
IsBannedUnexpired(c) == c.status = "banned" /\ ~isExpired(c.expiresAt)

\* c.status === 'banned', the first test on the record found
IsBanned(c) == c.status = "banned"

\* faulty variant: the entry stamped anew, activatedAt included
TouchAll(acts, k) == [acts EXCEPT ![k].lastSeen = now, ![k].activatedAt = now]

\* existing.lastSeen = new Date().toISOString(), on entry k
Touch(acts, k) == [acts EXCEPT ![k].lastSeen = now]

\* POST /api/licenses/activate
ActivateHandler(db, licenseKey, deviceId) ==
    LET i == FindByKey(db, licenseKey) IN
    IF licenseKey = "" \/ deviceId = ""
    THEN Result(db, FALSE,
                Reply("activate", 400, [error |-> "licenseKey and deviceId required"]))
    ELSE IF i = 0
    THEN Result(db, FALSE,
                Reply("activate", 404, [status |-> "invalid", error |-> "invalid license"]))
    ELSE IF IsBanned(db[i])
    THEN Result(db, FALSE, Reply("activate", 403, [status |-> "banned"]))
    ELSE IF isExpired(db[i].expiresAt)
    THEN Result([db EXCEPT ![i] = ExpireRecord(db[i])], TRUE,
                Reply("activate", 403,
                      [status |-> "expired", expiresAt |-> db[i].expiresAt]))
    ELSE LET c == db[i]
             k == FindActivation(c, deviceId)
         IN IF NotExisting(c, deviceId) /\ AtDeviceLimit(c)
            THEN Result(db, FALSE,
                        Reply("activate", 403,
                              [status |-> "limit_exceeded", maxDevices |-> c.maxDevices]))
            ELSE LET acts ==
                        IF NotExisting(c, deviceId)
                        THEN Append(c.activations,
                                    [deviceId |-> deviceId, activatedAt |-> now,
                                     lastSeen |-> now])
                        ELSE Touch(c.activations, k)
                 IN Result([db EXCEPT ![i] = [c EXCEPT !.activations = acts,
                                                       !.status = "active"]],
                           TRUE,
                           Reply("activate", 200,
                                 [status |-> "active", expiresAt |-> c.expiresAt,
                                  deviceId |-> deviceId, customerName |-> c.name]))

\* faulty variant: the status recomputed from the expiry alone
VerifyStatusFromExpiry(c) ==
    IF isExpired(c.expiresAt) THEN "expired" ELSE "active"

\* faulty variant: the stored status returned as it is
VerifyStatusStored(c) == c.status

\* status recomputed by GET /api/licenses/verify
VerifyStatus(c) ==
    IF c.status # "banned"
    THEN (IF isExpired(c.expiresAt) THEN "expired" ELSE "active")
    ELSE c.status

\* faulty variant: the status is recomputed and written before the activation is
\* looked up
NotActivatedAfterWrite(db, i) ==
    Result([db EXCEPT ![i].status = VerifyStatus(db[i])], TRUE,
           Reply("verify", 403, [status |-> "not_activated"]))

\* if (!activation) return res.status(403).json({ status: 'not_activated' })
NotActivated(db, i) ==
    Result(db, FALSE, Reply("verify", 403, [status |-> "not_activated"]))

\* GET /api/licenses/verify
VerifyHandler(db, licenseKey, deviceId) ==
    LET i == FindByKey(db, licenseKey) IN
    IF licenseKey = "" \/ deviceId = ""
    THEN Result(db, FALSE, Reply("verify", 400, [error |-> "key and deviceId required"]))
    ELSE IF i = 0
    THEN Result(db, FALSE, Reply("verify", 404, [status |-> "invalid"]))
    ELSE LET c == db[i]
             k == FindActivation(c, deviceId)
         IN IF k = 0
            THEN NotActivated(db, i)
            ELSE Result([db EXCEPT ![i] =
                            [c EXCEPT !.activations = Touch(c.activations, k),
                                      !.status = VerifyStatus(c)]],
                        TRUE,
                        Reply("verify", 200,
                              [status |-> VerifyStatus(c), expiresAt |-> c.expiresAt]))

\* writeData(obj): the whole document replaces the file
writeData(r) == customers' = (IF r.wrote THEN r.db ELSE customers)

----------------------------------------------------------------------------
(* Actions *)

Init ==
    /\ customers = <<>>
    /\ now = StartDay
    /\ request = NoRequest
    /\ response = NoResponse
    /\ inflight = {}
    /\ running = {}
    /\ outcomes = <<>>
    /\ ticks = 0
    /\ renewals = 0

conc == <<inflight, running, outcomes>>

\* faulty variant: a handler that yields between readData() and writeData(), so that
\* other handlers start while it is suspended
EventLoopYields == TRUE

\* A handler is a synchronous callback: the event loop starts it only when no
\* other handler is executing, and it runs to completion before the next.
EventLoopIdle == running = {}

\* time passes, at most max times: by a day, or up to the expiry of a license
TickUpTo(max) ==
    /\ ticks < max
    /\ EventLoopIdle
    /\ \E t \in {now + 1} \cup {customers[i].expiresAt : i \in 1..Len(customers)} :
          /\ t > now
          /\ now' = t
    /\ ticks' = ticks + 1
    /\ request' = [op |-> "tick"]
    /\ response' = Reply("tick", 0, [status |-> "none"])
    /\ UNCHANGED <<customers, renewals, conc>>

Tick == TickUpTo(MaxTicks)

\* Issue with the generators drawing from ids and keys, while the store holds
\* fewer than max records
IssueFrom(ids, keys, max, monthsInputs, maxDevicesInputs) ==
    \E name \in NameInputs, email \in EmailInputs, months \in monthsInputs,
       maxDevices \in maxDevicesInputs, id \in ids, licenseKey \in keys :
        LET r == IssueHandler(readData, name, email, months, maxDevices, id, licenseKey) IN
        /\ EventLoopIdle
        /\ Len(customers) < max
        /\ writeData(r)
        /\ request' = [op |-> "issue", name |-> name, email |-> email,
                       months |-> months, maxDevices |-> maxDevices]
        /\ response' = r.res
        /\ UNCHANGED <<now, ticks, renewals, conc>>

IssueWith(monthsInputs, maxDevicesInputs) ==
    IssueFrom(Ids, Keys, MaxCustomers, monthsInputs, maxDevicesInputs)

Issue == IssueWith(MonthsInputs, MaxDevicesInputs)

RenewWith(ids, monthsInputs) ==
    \E id \in ids, months \in monthsInputs :
        LET r == RenewHandler(readData, id, months) IN
        /\ EventLoopIdle
        /\ FindById(customers, id) # 0 => renewals < MaxRenewals
        /\ writeData(r)
        /\ renewals' = (IF r.wrote THEN renewals + 1 ELSE renewals)
        /\ request' = [op |-> "renew", id |-> id, months |-> months]
        /\ response' = r.res
        /\ UNCHANGED <<now, ticks, conc>>

Renew == RenewWith(Ids \cup {UnknownId}, MonthsInputs)

BanWith(ids, bannedInputs) ==
    \E id \in ids, banned \in bannedInputs :
        LET r == BanHandler(readData, id, banned) IN
        /\ EventLoopIdle
        /\ writeData(r)
        /\ request' = [op |-> "ban", id |-> id, banned |-> banned]
        /\ response' = r.res
        /\ UNCHANGED <<now, ticks, renewals, conc>>

Ban == BanWith(Ids \cup {UnknownId}, BannedInputs)

ActivateFor(inputs) ==
    \E in \in inputs :
        LET r == ActivateHandler(readData, in[1], in[2]) IN
        /\ EventLoopIdle
        /\ writeData(r)
        /\ request' = ActivateRequest(in[1], in[2])
        /\ response' = r.res
        /\ UNCHANGED <<now, ticks, renewals, conc>>

ActivateWith(devices) == ActivateFor(LicenseInputs(devices))

Activate == ActivateWith(DeviceIds)

VerifyFor(inputs) ==
    \E in \in inputs :
        LET r == VerifyHandler(readData, in[1], in[2]) IN
        /\ EventLoopIdle
        /\ writeData(r)
        /\ request' = [op |-> "verify", licenseKey |-> in[1], deviceId |-> in[2]]
        /\ response' = r.res
        /\ UNCHANGED <<now, ticks, renewals, conc>>

Verify == VerifyFor(LicenseInputs(DeviceIds))

Next == Tick \/ Issue \/ Renew \/ Ban \/ Activate \/ Verify

Spec == Init /\ [][Next]_vars

----------------------------------------------------------------------------
(* Admission: licenses of every device limit, activations by three devices *)

IssueAdmit == IssueWith({Undefined, Num(-1)}, MoreMaxDevicesInputs)

ActivateAdmit == ActivateWith(BatchDeviceIds)

NextAdmit == Tick \/ IssueAdmit \/ Ban \/ ActivateAdmit

SpecAdmit == Init /\ [][NextAdmit]_vars

----------------------------------------------------------------------------
(* Concurrent Activate requests.  The requests of a batch are received      *)
(* together; the event loop hands them to the handler one at a time, in any *)
(* order.  The handler is shown in its two halves: up to readData(), and    *)
(* from there to writeData() and the response.                              *)

IssueConc == IssueWith({Undefined, Num(-1)}, MoreMaxDevicesInputs)

\* a batch of Activate requests, one per device, arrives for one license key
Launch ==
    \E licenseKey \in Keys, devices \in SUBSET BatchDeviceIds :
        /\ devices # {}
        /\ inflight = {} /\ outcomes = <<>> /\ EventLoopIdle
        /\ FindByKey(customers, licenseKey) # 0
        /\ inflight' = {ActivateRequest(licenseKey, d) : d \in devices}
        /\ request' = [op |-> "launch", licenseKey |-> licenseKey, devices |-> devices]
        /\ response' = NoResponse
        /\ UNCHANGED <<customers, now, running, outcomes, ticks, renewals>>

\* the handler starts: const db = readData()
ActivateBegin ==
    \E req \in inflight :
        /\ EventLoopIdle
        /\ running' = running \cup {[req |-> req, db |-> readData]}
        /\ inflight' = inflight \ {req}
        /\ request' = req
        /\ response' = NoResponse
        /\ UNCHANGED <<customers, now, outcomes, ticks, renewals>>

\* the handler decides on the document it read, writes it and responds
ActivateEnd ==
    \E h \in running :
        LET r == ActivateHandler(h.db, h.req.licenseKey, h.req.deviceId) IN
        /\ writeData(r)
        /\ response' = r.res
        /\ outcomes' = Append(outcomes, [licenseKey |-> h.req.licenseKey,
                                         deviceId |-> h.req.deviceId,
                                         code |-> r.res.code,
                                         body |-> r.res.body])
        /\ running' = running \ {h}
        /\ UNCHANGED <<now, request, inflight, ticks, renewals>>

NextConc == IssueConc \/ Launch \/ ActivateBegin \/ ActivateEnd

SpecConc == Init /\ [][NextConc]_vars

----------------------------------------------------------------------------
(* Two licenses.  genId and genLicenseKey draw from two values each and may *)
(* return a value they have returned before; every operation addresses      *)
(* either license.                                                          *)

IssuePair == IssueFrom(PairIds, PairKeys, MaxPair, {Undefined}, {Num(1)})

RenewPair == RenewWith(PairIds, {Undefined})

BanPair == BanWith(PairIds, {Bool(TRUE), Bool(FALSE)})

ActivatePair == ActivateFor(PairKeys \X {"dev1"})

VerifyPair == VerifyFor(PairKeys \X {"dev1"})

NextPair == Tick \/ IssuePair \/ RenewPair \/ BanPair \/ ActivatePair \/ VerifyPair

SpecPair == Init /\ [][NextPair]_vars

----------------------------------------------------------------------------
(* One client, end to end: a license of one month and one device is issued, *)
(* activated by dev1, asked for by dev2, banned, verified, unbanned and     *)
(* verified again, while time passes at any point.  The responses are kept  *)
(* in outcomes, each with the time of the request.                          *)

E2EStep(stage, req, r) ==
    /\ EventLoopIdle
    /\ Len(outcomes) = stage
    /\ writeData(r)
    /\ request' = req
    /\ response' = r.res
    /\ outcomes' = Append(outcomes, [op |-> r.res.op, code |-> r.res.code,
                                     body |-> r.res.body, at |-> now])
    /\ UNCHANGED <<now, ticks, renewals, inflight, running>>

E2EIssue ==
    \E id \in Ids, licenseKey \in Keys :
        E2EStep(0, [op |-> "issue", name |-> Str(<<65>>), email |-> Str(<<97>>),
                    months |-> Num(1), maxDevices |-> Num(1)],
                IssueHandler(readData, Str(<<65>>), Str(<<97>>), Num(1), Num(1),
                             id, licenseKey))

E2EActivate ==
    \E stage \in {1, 2} :
        LET deviceId == DeviceNames[stage] IN
        E2EStep(stage, ActivateRequest(customers[1].licenseKey, deviceId),
                ActivateHandler(readData, customers[1].licenseKey, deviceId))

E2EBan ==
    \E stage \in {3, 5} :
        LET banned == Bool(stage = 3) IN
        E2EStep(stage, [op |-> "ban", id |-> customers[1].id, banned |-> banned],
                BanHandler(readData, customers[1].id, banned))

E2EVerify ==
    \E stage \in {4, 6} :
        E2EStep(stage, [op |-> "verify", licenseKey |-> customers[1].licenseKey,
                        deviceId |-> "dev1"],
                VerifyHandler(readData, customers[1].licenseKey, "dev1"))

E2ETick == TickUpTo(MaxElapse)

NextE2E == E2ETick \/ E2EIssue \/ E2EActivate \/ E2EBan \/ E2EVerify

SpecE2E == Init /\ [][NextE2E]_vars

----------------------------------------------------------------------------
(* addMonths on its own: a date of the bounded calendar and a count of      *)
(* months are drawn, and the function is applied to them.                   *)

CalendarDays == DayFromYear(CalendarFirstYear)..(DayFromYear(CalendarLastYear + 1) - 1)

MonthCounts == (0 - MaxMonths)..MaxMonths

InitCalendar ==
    /\ customers = <<>>
    /\ now = StartDay
    /\ request \in {[op |-> "addMonths", date |-> d, months |-> m] :
                        d \in CalendarDays, m \in MonthCounts}
    /\ response = NoResponse
    /\ inflight = {}
    /\ running = {}
    /\ outcomes = <<>>
    /\ ticks = 0
    /\ renewals = 0

ApplyAddMonths ==
    /\ request.op = "addMonths"
    /\ response = NoResponse
    /\ response' = Reply("addMonths", 0,
                         [status |-> "none",
                          result |-> addMonths(request.date, request.months)])
    /\ UNCHANGED <<customers, now, request, conc, ticks, renewals>>

NextCalendar == ApplyAddMonths

SpecCalendar == InitCalendar /\ [][NextCalendar]_vars

----------------------------------------------------------------------------
(* Properties *)

PositiveInteger(x) == x.t = "number" /\ x.v[1] >= 1

DevicesOf(c) == {c.activations[k].deviceId : k \in 1..Len(c.activations)}

Unexpired(c) == c.expiresAt > now

\* Activate by a device without an entry: admitted below the limit, rejected at it
C1_FreshActivation ==
    LET i == FindByKey(customers, request'.licenseKey)
        c == customers[i]
        N == c.maxDevices.v[1]
        d == request'.deviceId
    IN (/\ request'.op = "activate" /\ response'.op = "activate"
        /\ i # 0 /\ d # ""
        /\ c.status # "banned" /\ Unexpired(c)
        /\ PositiveInteger(c.maxDevices)
        /\ d \notin DevicesOf(c))
       => IF Len(c.activations) < N
          THEN /\ response'.code = 200
               /\ response'.body.status = "active"
               /\ customers'[i].activations =
                     Append(c.activations,
                            [deviceId |-> d, activatedAt |-> now, lastSeen |-> now])
          ELSE /\ response'.code = 403
               /\ response'.body.status = "limit_exceeded"
               /\ response'.body.maxDevices = Num(N)
               /\ customers' = customers

\* no license holds more entries than its maxDevices
C1_WithinLimit ==
    \A i \in 1..Len(customers) :
        PositiveInteger(customers[i].maxDevices)
            => Len(customers[i].activations) <= customers[i].maxDevices.v[1]

(* C1: on a license with maxDevices = N, N a positive integer, that is      *)
(* neither banned nor expired, Activate by a device without an entry        *)
(* succeeds with status 'active' and adds the entry while fewer than N      *)
(* devices are activated, and fails with DeviceLimitExceeded carrying       *)
(* maxDevices = N once N are; in every state such a license has at most N   *)
(* activation entries.                                                      *)
C1_DeviceLimit == []C1_WithinLimit /\ [][C1_FreshActivation]_vars

\* a third device is rejected on a license of two devices, both activated
C1_Witness ==
    /\ response.op = "activate" /\ response.code = 403
    /\ response.body.status = "limit_exceeded"
    /\ response.body.maxDevices = Num(2)
    /\ \E i \in 1..Len(customers) :
          /\ customers[i].maxDevices = Num(2)
          /\ Len(customers[i].activations) = 2
          /\ request.deviceId \notin DevicesOf(customers[i])

\* every request of the batch has been answered
BatchDone == inflight = {} /\ running = {} /\ outcomes # <<>>

Admitted == {k \in 1..Len(outcomes) : outcomes[k].code = 200}

Rejected ==
    {k \in 1..Len(outcomes) :
        outcomes[k].code = 403 /\ outcomes[k].body.status = "limit_exceeded"}

(* C2: when a batch of maxDevices + K (K >= 1) Activate requests for        *)
(* distinct devices has been handled, against an unexpired, unbanned        *)
(* license with no prior activations, exactly maxDevices of them were       *)
(* admitted, exactly K were rejected with DeviceLimitExceeded, and the      *)
(* persisted record holds exactly the admitted devices.                     *)
C2_ConcurrentAdmission ==
    BatchDone =>
        LET i == FindByKey(customers, outcomes[1].licenseKey)
            c == customers[i]
            N == c.maxDevices.v[1]
        IN (/\ PositiveInteger(c.maxDevices)
            /\ c.status # "banned" /\ Unexpired(c)
            /\ Len(outcomes) > N)
           => /\ Cardinality(Admitted) = N
              /\ Cardinality(Rejected) = Len(outcomes) - N
              /\ Len(c.activations) = N
              /\ DevicesOf(c) = {outcomes[k].deviceId : k \in Admitted}

\* three concurrent requests against a license of two devices
C2_Witness ==
    /\ BatchDone
    /\ Len(outcomes) = 3
    /\ customers[1].maxDevices = Num(2)
    /\ Unexpired(customers[1])
    /\ Cardinality(Rejected) = 1

\* the record a request with an id / a licenseKey addresses, 0 if none
ById == FindById(customers, request'.id)
ByKey == FindByKey(customers, request'.licenseKey)

\* one step: Ban(true) bans, and only Ban(false) on the license lifts a ban
C3_Step ==
    \A i \in 1..Len(customers) :
        LET banOn == request'.op = "ban" /\ ById = i IN
        /\ (banOn /\ request'.banned = Bool(TRUE))
              => customers'[i].status = "banned"
        /\ (customers[i].status = "banned"
              /\ ~(banOn /\ request'.banned = Bool(FALSE)))
              => customers'[i].status = "banned"

(* C3: a successful Ban(id, banned=true) persists status 'banned', and a    *)
(* license whose status is 'banned' keeps it through every step that is not *)
(* a Ban(id, banned=false) on it: Renew, Activate, Verify, Issue and the    *)
(* passing of time, expired or not.                                         *)
C3_BanSticky == [][C3_Step]_vars

\* a banned and expired license has just been verified by an activated device
C3_Witness ==
    /\ response.op = "verify" /\ response.code = 200
    /\ \E i \in 1..Len(customers) :
          /\ customers[i].status = "banned"
          /\ ~Unexpired(customers[i])
          /\ request.deviceId \in DevicesOf(customers[i])

\* one step: Activate by a device that has an entry
C4_Step ==
    LET i == ByKey
        c == customers[i]
        d == request'.deviceId
        k == CHOOSE j \in 1..Len(c.activations) : c.activations[j].deviceId = d
    IN (/\ request'.op = "activate" /\ response'.op = "activate"
        /\ i # 0
        /\ c.status # "banned" /\ Unexpired(c)
        /\ d \in DevicesOf(c))
       => /\ response'.code = 200
          /\ response'.body.status = "active"
          /\ customers'[i].activations =
                [c.activations EXCEPT ![k] =
                    [deviceId |-> d,
                     activatedAt |-> c.activations[k].activatedAt,
                     lastSeen |-> now]]

(* C4: Activate for a device that has an entry on an unbanned, unexpired    *)
(* license succeeds, whatever the activation count, keeps the number of     *)
(* entries and every other entry, and changes only lastSeen (to now) of the *)
(* device's entry.                                                          *)
C4_Reactivation == [][C4_Step]_vars

\* a license of one device, its device activated earlier and again now
C4_Witness ==
    /\ response.op = "activate" /\ response.code = 200
    /\ \E i \in 1..Len(customers) :
          /\ customers[i].maxDevices = Num(1)
          /\ Len(customers[i].activations) = 1
          /\ customers[i].activations[1].deviceId = request.deviceId
          /\ customers[i].activations[1].activatedAt < now
          /\ customers[i].activations[1].lastSeen = now

\* the failure kind of a response, "" for a success
FailureKind(r) ==
    IF r.code = 400 /\ r.op = "issue" THEN "ValidationError"
    ELSE IF r.code = 404 /\ r.op \in {"renew", "ban"} THEN "NotFound"
    ELSE IF r.code = 404 /\ r.op \in {"activate", "verify"} THEN "InvalidLicense"
    ELSE IF r.code = 403 /\ r.op = "activate" /\ r.body.status = "banned" THEN "Banned"
    ELSE IF r.code = 403 /\ r.op = "activate" /\ r.body.status = "expired" THEN "Expired"
    ELSE IF r.code = 403 /\ r.op = "activate" /\ r.body.status = "limit_exceeded"
         THEN "DeviceLimitExceeded"
    ELSE IF r.code = 403 /\ r.op = "verify" /\ r.body.status = "not_activated"
         THEN "NotActivated"
    ELSE ""

(* C5, as claimed: an operation that returns a failure kind leaves the      *)
(* persisted collection as it was.                                          *)
C5_AsClaimed == [][FailureKind(response') # "" => customers' = customers]_vars

\* one step: what a failed operation leaves behind
C5_Step ==
    /\ FailureKind(response') \notin {"", "Expired"} => customers' = customers
    /\ FailureKind(response') = "Expired"
          => /\ ByKey # 0
             /\ customers' = [customers EXCEPT ![ByKey].status = "expired"]

(* C5: an operation that returns a failure kind other than Expired leaves   *)
(* the persisted collection as it was; an Activate rejected as Expired      *)
(* changes nothing but the status of the addressed record, to 'expired'.    *)
C5_NoPartialWrites == [][C5_Step]_vars

\* an activation was rejected as Expired on a license with an activated device
C5_Witness ==
    /\ response.op = "activate" /\ response.code = 403
    /\ response.body.status = "expired"
    /\ \E i \in 1..Len(customers) :
          /\ customers[i].status = "expired"
          /\ customers[i].activations # <<>>

\* the months of a request as the interval they ask for: a non-zero number,
\* given as a number or as text, and the default otherwise
MonthsAsked(months, default) ==
    IF months.t = "number" /\ months.v[1] # 0 THEN months.v[1]
    ELSE IF months.t = "string" /\ ToNumber(months).t = "number"
            /\ ToNumber(months).v[1] # 0
         THEN ToNumber(months).v[1]
    ELSE default

\* the step is a successful Renew of record i
RenewOf(i) ==
    /\ request'.op = "renew" /\ response'.op = "renew" /\ response'.code = 200
    /\ ById = i

(* C6, as claimed: Renew on a license that is not expired sets expiresAt to *)
(* addMonths(old expiresAt, months) and never decreases it, for every       *)
(* months the operation accepts.                                            *)
C6_AsClaimed ==
    [][\A i \in 1..Len(customers) :
          (RenewOf(i) /\ Unexpired(customers[i]))
             => /\ customers'[i].expiresAt =
                      addMonths(customers[i].expiresAt, MonthsAsked(request'.months, 3))
                /\ customers'[i].expiresAt >= customers[i].expiresAt]_vars

\* one step: Renew of an expired license
C7_Step ==
    \A i \in 1..Len(customers) :
        (RenewOf(i) /\ ~Unexpired(customers[i]))
           => /\ customers'[i].expiresAt = addMonths(now, MonthsAsked(request'.months, 3))
              /\ request'.months \in {Undefined, Str(<<120>>)}
                    => customers'[i].expiresAt = addMonths(now, 3)

(* C7: Renew on an expired license (expiresAt <= now) sets expiresAt to     *)
(* addMonths(now, months); with months missing or not a number the interval *)
(* is 3 months.                                                             *)
C7_RenewExpired == [][C7_Step]_vars

\* an expired license renewed without months: three months from today, the
\* stored expiry being a different day
C7_Witness ==
    /\ response.op = "renew" /\ response.code = 200
    /\ request.months = Undefined
    /\ now > StartDay
    /\ \E i \in 1..Len(customers) :
          /\ customers[i].id = request.id
          /\ customers[i].expiresAt = addMonths(now, 3)

\* one step: Verify by a device without an entry
C8_Step ==
    LET i == ByKey IN
    (/\ request'.op = "verify" /\ response'.op = "verify"
     /\ i # 0 /\ request'.deviceId # ""
     /\ request'.deviceId \notin DevicesOf(customers[i]))
    => /\ response'.code = 403
       /\ response'.body.status = "not_activated"
       /\ customers' = customers

(* C8: Verify with a known licenseKey for a device that has no entry on the *)
(* license returns NotActivated and leaves the persisted collection as it   *)
(* was, whatever the status of the license.                                 *)
C8_VerifyNeverActivates == [][C8_Step]_vars

\* NotActivated on a license whose stored status is stale: it has expired
\* and still reads 'active'
C8_Witness ==
    /\ response.op = "verify" /\ response.code = 403
    /\ \E i \in 1..Len(customers) :
          /\ customers[i].licenseKey = request.licenseKey
          /\ customers[i].status = "active"
          /\ ~Unexpired(customers[i])

(* C9, as claimed: every record holds a positive integer maxDevices, 2 when *)
(* the request gave none or gave a text that is no number, and an expiry of *)
(* createdAt plus the months asked, 6 by default.                           *)
C9_AsClaimed ==
    \A i \in 1..Len(customers) :
        /\ PositiveInteger(customers[i].maxDevices)
        /\ (response.op = "issue" /\ response.code = 200 /\ i = Len(customers))
              => /\ customers[i].expiresAt =
                       addMonths(customers[i].createdAt, MonthsAsked(request.months, 6))
                 /\ request.maxDevices \in {Undefined, Str(<<120>>)}
                       => customers[i].maxDevices = Num(2)

\* the status the rule gives a record, given whether it is explicitly banned
StatusRule(c, banned) ==
    IF banned THEN "banned" ELSE IF c.expiresAt <= now THEN "expired" ELSE "active"

IssueDone == request'.op = "issue" /\ response'.code = 200
BanOf(i) == request'.op = "ban" /\ response'.code = 200 /\ ById = i
ActivateWrote(i) ==
    /\ request'.op = "activate" /\ response'.op = "activate" /\ ByKey = i
    /\ \/ response'.code = 200
       \/ response'.code = 403 /\ response'.body.status = "expired"
VerifyDone(i) ==
    request'.op = "verify" /\ response'.op = "verify" /\ response'.code = 200 /\ ByKey = i

\* Ban, Activate and Verify persist the status of the rule
C10_Recomputed ==
    \A i \in 1..Len(customers) :
        /\ BanOf(i) =>
              customers'[i].status =
                 StatusRule(customers'[i], Truthy(Default(request'.banned, Bool(TRUE))))
        /\ (ActivateWrote(i) \/ VerifyDone(i)) =>
              customers'[i].status =
                 StatusRule(customers'[i], customers[i].status = "banned")

(* C10, as claimed: after Issue, Renew, Ban, a successful Activate, an      *)
(* Activate rejected as Expired and a successful Verify, the persisted      *)
(* status of the record is 'banned' if it is banned, else 'expired' if      *)
(* expiresAt <= now, else 'active'.                                         *)
C10_AsClaimed ==
    [][/\ C10_Recomputed
       /\ IssueDone =>
             customers'[Len(customers')].status =
                StatusRule(customers'[Len(customers')], FALSE)
       /\ \A i \in 1..Len(customers) :
             RenewOf(i) =>
                customers'[i].status =
                   StatusRule(customers'[i], customers[i].status = "banned")]_vars

(* C10: after Ban, a successful Activate, an Activate rejected as Expired   *)
(* and a successful Verify, the persisted status of the record is 'banned'  *)
(* if it is banned, else 'expired' if expiresAt <= now, else 'active';      *)
(* Issue persists 'active' and Renew leaves the status as it was.           *)
C10_StatusRule ==
    [][/\ C10_Recomputed
       /\ IssueDone => customers'[Len(customers')].status = "active"
       /\ \A i \in 1..Len(customers) :
             RenewOf(i) => customers'[i].status = customers[i].status]_vars

\* an expired license has just been unbanned
C10_Witness ==
    /\ response.op = "ban" /\ response.code = 200
    /\ request.banned = Bool(FALSE)
    /\ \E i \in 1..Len(customers) :
          /\ customers[i].id = request.id
          /\ customers[i].status = "expired"

\* one step: Ban(false) on a known id, Ban on an unknown id
C11_Step ==
    /\ (request'.op = "ban" /\ \A j \in 1..Len(customers) : customers[j].id # request'.id)
          => /\ response'.code = 404
             /\ response'.body = [error |-> "not found"]
             /\ customers' = customers
    /\ \A i \in 1..Len(customers) :
          (request'.op = "ban" /\ request'.banned = Bool(FALSE) /\ ById = i)
             => LET s == IF customers[i].expiresAt <= now THEN "expired" ELSE "active"
                IN /\ response'.code = 200
                   /\ customers'[i].status = s
                   /\ response'.body.status = s
                   /\ customers'[i].status # "banned"

(* C11: after a successful Ban(id, banned=false) the persisted and the      *)
(* returned status are 'expired' if expiresAt <= now and 'active'           *)
(* otherwise, never 'banned'; Ban on an unknown id fails with NotFound.     *)
C11_UnbanRecomputes == [][C11_Step]_vars

\* a license has been unbanned a day or more after it was issued, before
\* its expiry
C11_Witness ==
    /\ response.op = "ban" /\ response.code = 200
    /\ request.banned = Bool(FALSE)
    /\ now > StartDay
    /\ response.body.status = "active"
    /\ \E i \in 1..Len(customers) :
          /\ customers[i].id = request.id
          /\ customers[i].status = "active"
          /\ Unexpired(customers[i])

\* one step: Activate on a banned license
C12_Step ==
    \A i \in 1..Len(customers) :
        (/\ request'.op = "activate" /\ response'.op = "activate"
         /\ ByKey = i /\ request'.deviceId # ""
         /\ customers[i].status = "banned")
        => /\ response'.code = 403
           /\ response'.body = [status |-> "banned"]
           /\ customers' = customers

(* C12: Activate on a banned license fails with Banned, expired or not and  *)
(* whether or not the device has an entry: the ban is tested before the     *)
(* expiry, the persisted status stays 'banned' and no activation entry is   *)
(* added or touched.                                                        *)
C12_BannedFirst == [][C12_Step]_vars

\* Banned is the answer to a device with an entry on a license that is
\* banned and expired
C12_Witness ==
    /\ response.op = "activate" /\ response.code = 403
    /\ response.body.status = "banned"
    /\ \E i \in 1..Len(customers) :
          /\ customers[i].licenseKey = request.licenseKey
          /\ customers[i].status = "banned"
          /\ ~Unexpired(customers[i])
          /\ request.deviceId \in DevicesOf(customers[i])

\* one step: Activate on an unbanned license that has expired
C13_Step ==
    \A i \in 1..Len(customers) :
        (/\ request'.op = "activate" /\ response'.op = "activate"
         /\ ByKey = i /\ request'.deviceId # ""
         /\ customers[i].status # "banned"
         /\ customers[i].expiresAt <= now)
        => /\ response'.code = 403
           /\ response'.body =
                 [status |-> "expired", expiresAt |-> customers[i].expiresAt]
           /\ customers' = [customers EXCEPT ![i].status = "expired"]

(* C13: Activate on an unbanned license with expiresAt <= now, equality     *)
(* included, fails with Expired carrying the expiry timestamp, persists     *)
(* status 'expired', and adds no activation entry and updates no lastSeen,  *)
(* also for a device that has an entry.                                     *)
C13_ExpiredActivate == [][C13_Step]_vars

\* Expired is the answer on the very day of the expiry, to a device that
\* has an entry
C13_Witness ==
    /\ response.op = "activate" /\ response.code = 403
    /\ response.body.status = "expired"
    /\ \E i \in 1..Len(customers) :
          /\ customers[i].licenseKey = request.licenseKey
          /\ customers[i].expiresAt = now
          /\ customers[i].status = "expired"
          /\ \E k \in 1..Len(customers[i].activations) :
                /\ customers[i].activations[k].deviceId = request.deviceId
                /\ customers[i].activations[k].lastSeen < now

\* one step: Verify by a device that has an entry
C14_Step ==
    \A i \in 1..Len(customers) :
        (/\ request'.op = "verify" /\ response'.op = "verify"
         /\ ByKey = i
         /\ request'.deviceId \in DevicesOf(customers[i]))
        => LET c == customers[i]
               s == IF c.status = "banned" THEN "banned"
                    ELSE IF c.expiresAt <= now THEN "expired" ELSE "active"
           IN /\ response'.code = 200
              /\ response'.body.status = s
              /\ customers'[i].status = s
              /\ response'.body.status = customers'[i].status
              /\ \A k \in 1..Len(c.activations) :
                    c.activations[k].deviceId = request'.deviceId
                       => customers'[i].activations[k].lastSeen = now

(* C14: Verify for a device that has an entry returns and persists the      *)
(* recomputed status: 'banned' if the stored status is 'banned', expired or *)
(* not, otherwise 'expired' if expiresAt <= now and 'active' otherwise; the *)
(* returned status is the persisted one, and the lastSeen of the device's   *)
(* entry becomes now in all three cases.                                    *)
C14_VerifyStatus == [][C14_Step]_vars

\* Verify has answered 'expired' to a device activated on an earlier day,
\* and stamped its entry
C14_Witness ==
    /\ response.op = "verify" /\ response.code = 200
    /\ response.body.status = "expired"
    /\ \E i \in 1..Len(customers) :
          /\ customers[i].licenseKey = request.licenseKey
          /\ customers[i].status = "expired"
          /\ \E k \in 1..Len(customers[i].activations) :
                /\ customers[i].activations[k].deviceId = request.deviceId
                /\ customers[i].activations[k].activatedAt < now
                /\ customers[i].activations[k].lastSeen = now

(* C15, as claimed: in every state no two records share a licenseKey and no *)
(* two share an id, whatever values the generators return on Issue.         *)
C15_AsClaimed ==
    \A i, j \in 1..Len(customers) :
        i # j => /\ customers[i].licenseKey # customers[j].licenseKey
                 /\ customers[i].id # customers[j].id

\* the response to the request of a stage of the sequence
StageDone(k) == Len(outcomes) >= k

(* C16: in the sequence Issue(months 1, maxDevices 1), Activate(dev1),      *)
(* Activate(dev2), Ban(true), Verify(dev1), Ban(false), Verify(dev1), with  *)
(* no Renew: Activate(dev1) before the expiry returns 'active'; then        *)
(* Activate(dev2) returns DeviceLimitExceeded with maxDevices 1; Verify     *)
(* after the Ban returns 'banned'; and Verify after the unban, at           *)
(* now >= expiresAt, returns 'expired'.                                     *)
C16_EndToEnd ==
    StageDone(1) =>
        LET e == customers[1].expiresAt IN
        /\ outcomes[1].code = 200
        /\ (StageDone(2) /\ outcomes[2].at < e)
              => /\ outcomes[2].code = 200
                 /\ outcomes[2].body.status = "active"
        /\ (StageDone(3) /\ outcomes[3].at < e)
              => /\ outcomes[3].code = 403
                 /\ outcomes[3].body =
                       [status |-> "limit_exceeded", maxDevices |-> Num(1)]
        /\ (StageDone(5) /\ outcomes[2].at < e)
              => /\ outcomes[4].code = 200
                 /\ outcomes[5].code = 200
                 /\ outcomes[5].body.status = "banned"
        /\ (StageDone(7) /\ outcomes[2].at < e /\ outcomes[7].at >= e)
              => /\ outcomes[6].code = 200
                 /\ outcomes[7].code = 200
                 /\ outcomes[7].body.status = "expired"

\* the whole sequence has run, the license expiring after the unban
C16_Witness ==
    /\ StageDone(7)
    /\ outcomes[2].body.status = "active"
    /\ outcomes[3].body.status = "limit_exceeded"
    /\ outcomes[5].body.status = "banned"
    /\ outcomes[6].body.status = "active"
    /\ outcomes[6].at < customers[1].expiresAt
    /\ outcomes[7].body.status = "expired"

\* the number of days of month m (0..11) of year y
DaysInMonth(y, m) == DaysBeforeMonth(y, m + 1) - DaysBeforeMonth(y, m)

\* calendar-month arithmetic that keeps the day of the month, or takes the
\* last day of the target month when the target month is shorter
ClampedAddMonths(date, months) ==
    LET t == YearFromTime(date) * 12 + MonthFromTime(date) + months
        y == t \div 12
        m == t % 12
        d == DateFromTime(date)
    IN MakeDay(y, m, IF d <= DaysInMonth(y, m) THEN d ELSE DaysInMonth(y, m))

(* C17, as claimed: addMonths(date, months) is the same day of the month    *)
(* months calendar months later, or the last day of that month when the     *)
(* month has no such day, for every date and count of the bounded calendar. *)
C17_AsClaimed ==
    response.op = "addMonths"
        => response.body.result = ClampedAddMonths(request.date, request.months)

(* C18: in every state the activations of each license hold at most one     *)
(* entry per deviceId.                                                      *)
C18_UniqueDevices ==
    \A i \in 1..Len(customers) :
        \A k, l \in 1..Len(customers[i].activations) :
            k # l => customers[i].activations[k].deviceId
                        # customers[i].activations[l].deviceId

\* the first of two devices has activated again, on a later day
C18_Witness ==
    /\ response.op = "activate" /\ response.code = 200
    /\ \E i \in 1..Len(customers) :
          /\ Len(customers[i].activations) = 2
          /\ customers[i].activations[1].deviceId = request.deviceId
          /\ customers[i].activations[1].activatedAt < now
          /\ customers[i].activations[1].lastSeen = now

\* lastSeen of an entry is never before its activatedAt
C19_Seen ==
    \A i \in 1..Len(customers) :
        \A k \in 1..Len(customers[i].activations) :
            customers[i].activations[k].lastSeen
                >= customers[i].activations[k].activatedAt

\* one step: entries stay, with their activatedAt; lastSeen does not decrease;
\* an entry is new only by a successful Activate
C19_Step ==
    /\ Len(customers') >= Len(customers)
    /\ \A i \in (Len(customers) + 1)..Len(customers') :
          customers'[i].activations = <<>>
    /\ \A i \in 1..Len(customers) :
          LET old == customers[i].activations
              new == customers'[i].activations
          IN /\ Len(new) >= Len(old)
             /\ \A k \in 1..Len(old) :
                   /\ new[k].deviceId = old[k].deviceId
                   /\ new[k].activatedAt = old[k].activatedAt
                   /\ new[k].lastSeen >= old[k].lastSeen
             /\ \A k \in (Len(old) + 1)..Len(new) :
                   /\ request'.op = "activate" /\ response'.code = 200
                   /\ ByKey = i
                   /\ k = Len(old) + 1
                   /\ new[k] = [deviceId |-> request'.deviceId,
                                activatedAt |-> now, lastSeen |-> now]

(* C19: an activation entry, once on a license, is in every later state     *)
(* with the same activatedAt; entries are created only by a successful      *)
(* Activate, with activatedAt = lastSeen = now, never by Verify, Renew, Ban *)
(* or Issue; lastSeen of an entry never decreases and is never before its   *)
(* activatedAt.                                                             *)
C19_Permanent == []C19_Seen /\ [][C19_Step]_vars

\* a license has been renewed; its entry, seen after the day of its
\* activation, is still there
C19_Witness ==
    /\ response.op = "renew" /\ response.code = 200
    /\ \E i \in 1..Len(customers) :
          /\ customers[i].id = request.id
          /\ customers[i].activations # <<>>
          /\ customers[i].activations[1].activatedAt
                < customers[i].activations[1].lastSeen

\* record j is the one the request addresses: the first with its id, for
\* Renew and Ban, the first with its licenseKey, for Activate and Verify
Addressed(j) ==
    IF request'.op \in {"renew", "ban"}
    THEN /\ customers[j].id = request'.id
         /\ \A l \in 1..(j - 1) : customers[l].id # request'.id
    ELSE IF request'.op \in {"activate", "verify"}
    THEN /\ customers[j].licenseKey = request'.licenseKey
         /\ \A l \in 1..(j - 1) : customers[l].licenseKey # request'.licenseKey
    ELSE FALSE

\* one step: what an operation may change
C20_Step ==
    /\ Len(customers') >= Len(customers)
    /\ \A j \in 1..Len(customers) :
          LET c == customers[j]
              d == customers'[j]
          IN /\ d.id = c.id /\ d.licenseKey = c.licenseKey
             /\ d.maxDevices = c.maxDevices /\ d.createdAt = c.createdAt
             /\ ~Addressed(j) => d = c
             /\ request'.op = "renew" => d = [c EXCEPT !.expiresAt = d.expiresAt]
             /\ request'.op = "ban" => d = [c EXCEPT !.status = d.status]
             /\ request'.op \in {"activate", "verify"}
                   => /\ d.expiresAt = c.expiresAt
                      /\ d = [c EXCEPT !.status = d.status,
                                       !.activations = d.activations]

(* C20: Renew changes only expiresAt, Ban only status, Activate and Verify  *)
(* only status and activations and never expiresAt; id, licenseKey,         *)
(* maxDevices and createdAt of a record never change; and every record      *)
(* other than the one the operation addresses stays as it was, in every     *)
(* order of operations on two licenses.                                     *)
C20_Frame == [][C20_Step]_vars

\* of two licenses with an activated device each, the second has just been
\* banned and the first reads as before
C20_Witness ==
    /\ response.op = "ban" /\ response.code = 200
    /\ Len(customers) = 2
    /\ customers[1].id # customers[2].id
    /\ customers[1].licenseKey # customers[2].licenseKey
    /\ request.id = customers[2].id
    /\ customers[2].status = "banned"
    /\ customers[1].status = "active"
    /\ customers[1].activations # <<>>
    /\ customers[2].activations # <<>>

====
